---- MODULE Spec2Model ----
(***************************************************************************)
(* Model of src/main.py, the AI Code Explainer API: the lazily loaded      *)
(* model handle (tokenizer, model), the POST /api/explain handler, and the *)
(* four text heuristics it calls.  Text is a sequence of one-character     *)
(* strings, so that strip, split, substring tests and regular-expression   *)
(* counting are computed the way Python computes them.                     *)
(***************************************************************************)
EXTENDS Integers, Sequences, FiniteSets, TLC

VARIABLES tokenizer, model, pending, request, response, log, stats, first, call

vars == <<tokenizer, model, pending, request, response, log, stats, first, call>>

(***************************************************************************)
(* Optional values: Python's None and a present value.                     *)
(***************************************************************************)
None == <<>>
Some(x) == <<x>>

(***************************************************************************)
(* Python string primitives over sequences of characters.                  *)
(***************************************************************************)
Whitespace == {" ", "\t", "\n", "\r"}

SetMin(S) == CHOOSE x \in S : \A y \in S : x <= y

IsBlank(s) == \A i \in 1..Len(s) : s[i] \in Whitespace

\* Position of the first and of the last character of s that is not
\* whitespace (s not blank).
FirstNonSpace(s) ==
    CHOOSE i \in 1..Len(s) : s[i] \notin Whitespace
                             /\ \A j \in 1..(i - 1) : s[j] \in Whitespace
LastNonSpace(s) ==
    CHOOSE i \in 1..Len(s) : s[i] \notin Whitespace
                             /\ \A j \in (i + 1)..Len(s) : s[j] \in Whitespace

\* str.strip(): drop leading and trailing whitespace.
Strip(s) ==
    IF IsBlank(s) THEN <<>> ELSE SubSeq(s, FirstNonSpace(s), LastNonSpace(s))

\* Whether the word w occurs in s at position i.
MatchAt(s, w, i) ==
    /\ i + Len(w) - 1 <= Len(s)
    /\ \A j \in 1..Len(w) : s[i + j - 1] = w[j]

\* sub in s
Contains(s, sub) == \E i \in 1..(Len(s) - Len(sub) + 1) : MatchAt(s, sub, i)

\* s.startswith(p)
StartsWith(s, p) == MatchAt(s, p, 1)

\* s.split(c) for a one-character separator: always at least one piece.
RECURSIVE Split(_, _)
Split(s, c) ==
    LET idx == {i \in 1..Len(s) : s[i] = c}
    IN  IF idx = {} THEN <<s>>
        ELSE LET i == SetMin(idx)
             IN  <<SubSeq(s, 1, i - 1)>> \o Split(SubSeq(s, i + 1, Len(s)), c)

\* s.split() without separator: the maximal runs of non-whitespace.
RECURSIVE SplitWhitespace(_)
SplitWhitespace(s) ==
    IF IsBlank(s) THEN <<>>
    ELSE LET b == FirstNonSpace(s)
             rest == SubSeq(s, b, Len(s))
             e == IF \E i \in 1..Len(rest) : rest[i] \in Whitespace
                  THEN (CHOOSE i \in 1..Len(rest) :
                            rest[i] \in Whitespace
                            /\ \A j \in 1..(i - 1) : rest[j] \notin Whitespace) - 1
                  ELSE Len(rest)
         IN  <<SubSeq(rest, 1, e)>> \o SplitWhitespace(SubSeq(rest, e + 1, Len(rest)))

\* len(re.findall(r'(a|b|...)', s)): scan left to right; at the leftmost
\* position where some alternative matches, the first alternative that matches
\* there is taken and the scan resumes after it.
AnyMatchAt(s, alts, j) == \E k \in 1..Len(alts) : MatchAt(s, alts[k], j)

RECURSIVE FindAllFrom(_, _, _)
FindAllFrom(s, alts, i) ==
    IF ~\E j \in i..Len(s) : AnyMatchAt(s, alts, j) THEN 0
    ELSE LET j == CHOOSE j \in i..Len(s) :
                      AnyMatchAt(s, alts, j)
                      /\ \A h \in i..(j - 1) : ~AnyMatchAt(s, alts, h)
             k == SetMin({a \in 1..Len(alts) : MatchAt(s, alts[a], j)})
         IN  1 + FindAllFrom(s, alts, j + Len(alts[k]))

FindAllCount(s, alts) == FindAllFrom(s, alts, 1)

\* "sep".join(parts)
RECURSIVE Join(_, _)
Join(parts, sep) ==
    IF parts = <<>> THEN <<>>
    ELSE IF Len(parts) = 1 THEN parts[1]
    ELSE parts[1] \o sep \o Join(Tail(parts), sep)

\* Concatenation of a sequence of texts.
Concat(parts) == Join(parts, <<>>)

(***************************************************************************)
(* The literals the heuristics test for.                                   *)
(***************************************************************************)
kwDef      == <<"d", "e", "f", " ">>
kwFunction == <<"f", "u", "n", "c", "t", "i", "o", "n", " ">>
kwIfSp     == <<"i", "f", " ">>
kwForSp    == <<"f", "o", "r", " ">>
kwWhileSp  == <<"w", "h", "i", "l", "e", " ">>
kwReturnSp == <<"r", "e", "t", "u", "r", "n", " ">>
kwPrintP   == <<"p", "r", "i", "n", "t", "(">>
kwEq       == <<"=">>
kwImportSp == <<"i", "m", "p", "o", "r", "t", " ">>
kwClassSp  == <<"c", "l", "a", "s", "s", " ">>
kwElse     == <<"e", "l", "s", "e">>
kwRangeP   == <<"r", "a", "n", "g", "e", "(">>
kwTry      == <<"t", "r", "y">>
kwExcept   == <<"e", "x", "c", "e", "p", "t">>
kwFor      == <<"f", "o", "r">>
kwWhile    == <<"w", "h", "i", "l", "e">>
kwIf       == <<"i", "f">>
kwElif     == <<"e", "l", "i", "f">>
kwSwitch   == <<"s", "w", "i", "t", "c", "h">>
kwCase     == <<"c", "a", "s", "e">>
kwRange    == <<"r", "a", "n", "g", "e">>
kwPrint    == <<"p", "r", "i", "n", "t">>
kwInputPP  == <<"i", "n", "p", "u", "t", "(", ")">>
kwBrackets == <<"[", "]">>
kwBraces   == <<"{", "}">>
kwHash     == <<"#">>

LoopWords        == <<kwFor, kwWhile>>
ConditionalWords == <<kwIf, kwElse, kwElif, kwSwitch, kwCase>>

LongLine == 80

(***************************************************************************)
(* analyze_complexity                                                      *)
(***************************************************************************)
\* The "High" thresholds taken inclusively.
ComplexityLabelInclusive(num_loops, num_conditionals) ==
    IF num_loops >= 2 \/ num_conditionals >= 3 THEN "High"
    ELSE IF num_loops > 0 \/ num_conditionals > 1 THEN "Medium"
    ELSE "Low"

ComplexityLabel(num_loops, num_conditionals) ==
    IF num_loops > 2 \/ num_conditionals > 3 THEN "High"
    ELSE IF num_loops > 0 \/ num_conditionals > 1 THEN "Medium"
    ELSE "Low"

analyze_complexity(code) ==
    LET num_loops == FindAllCount(code, LoopWords)
        num_conditionals == FindAllCount(code, ConditionalWords)
    IN  [complexity |-> ComplexityLabel(num_loops, num_conditionals),
         time_complexity |-> IF num_loops > 0 THEN "O(n)" ELSE "O(1)",
         space_complexity |->
             IF Contains(code, kwBrackets) \/ Contains(code, kwBraces)
             THEN "O(n)" ELSE "O(1)"]

(***************************************************************************)
(* generate_simple_explanation.  A call either returns a sentence or       *)
(* raises; a sentence is a fixed text plus the extracted name, if any.     *)
(***************************************************************************)
Returned(v) == [raised |-> FALSE, msg |-> "", value |-> Some(v)]
Raised(m)   == [raised |-> TRUE, msg |-> m, value |-> None]

Sentence(text) == [text |-> text, name |-> <<>>]
Named(text, name) == [text |-> text, name |-> name]

SentFunction == "This defines a function named "
SentIf       == "This is a conditional statement that checks a condition"
SentLoop     == "This is a loop that iterates over a sequence or continues while a condition is true"
SentReturn   == "This statement returns a value from the function"
SentPrint    == "This statement outputs text to the console"
SentAssign   == "This assigns a value to a variable"
SentImport   == "This imports a module or specific components from a module"
SentClass    == "This defines a class named "
SentDefault  == "This line contains code that performs an operation"

\* line.split('(')[0].split()[-1]: IndexError when nothing but whitespace
\* precedes the first "(".
ExtractName(line, text) ==
    LET tokens == SplitWhitespace(Split(line, "(")[1])
    IN  IF tokens = <<>> THEN Raised("list index out of range")
        ELSE Returned(Named(text, tokens[Len(tokens)]))

generate_simple_explanation(raw) ==
    LET line == Strip(raw)
    IN  IF StartsWith(line, kwDef) \/ StartsWith(line, kwFunction)
            THEN ExtractName(line, SentFunction)
        ELSE IF Contains(line, kwIfSp) THEN Returned(Sentence(SentIf))
        ELSE IF Contains(line, kwForSp) \/ Contains(line, kwWhileSp)
            THEN Returned(Sentence(SentLoop))
        ELSE IF Contains(line, kwReturnSp) THEN Returned(Sentence(SentReturn))
        ELSE IF Contains(line, kwPrintP) THEN Returned(Sentence(SentPrint))
        ELSE IF Contains(line, kwEq) THEN Returned(Sentence(SentAssign))
        ELSE IF Contains(line, kwImportSp) THEN Returned(Sentence(SentImport))
        ELSE IF Contains(line, kwClassSp) THEN ExtractName(line, SentClass)
        ELSE Returned(Sentence(SentDefault))

(***************************************************************************)
(* generate_suggestions                                                    *)
(***************************************************************************)
SugLong   == "Consider breaking this long line into multiple lines for better readability"
SugElse   == "Consider adding an else clause to handle the alternative case"
SugCompr  == "Consider using list comprehension or built-in functions for better performance"
SugLog    == "Consider using proper logging instead of print statements"
SugExcept == "Add proper exception handling"

AppendIf(list, cond, item) == IF cond THEN Append(list, item) ELSE list

\* The five rules as one if/elif chain: at most one fires.
generate_suggestions_exclusive(line) ==
    IF Len(line) > LongLine THEN <<SugLong>>
    ELSE IF Contains(line, kwIfSp) /\ ~Contains(line, kwElse) THEN <<SugElse>>
    ELSE IF Contains(line, kwForSp) /\ Contains(line, kwRangeP) THEN <<SugCompr>>
    ELSE IF Contains(line, kwPrintP) THEN <<SugLog>>
    ELSE IF Contains(line, kwTry) /\ ~Contains(line, kwExcept) THEN <<SugExcept>>
    ELSE <<>>

generate_suggestions(line) ==
    LET s1 == AppendIf(<<>>, Len(line) > LongLine, SugLong)
        s2 == AppendIf(s1, Contains(line, kwIfSp) /\ ~Contains(line, kwElse), SugElse)
        s3 == AppendIf(s2, Contains(line, kwForSp) /\ Contains(line, kwRangeP), SugCompr)
        s4 == AppendIf(s3, Contains(line, kwPrintP), SugLog)
        s5 == AppendIf(s4, Contains(line, kwTry) /\ ~Contains(line, kwExcept), SugExcept)
    IN  s5

(***************************************************************************)
(* generate_improvements                                                   *)
(***************************************************************************)
ImpTime      == "Consider using list comprehension or built-in functions for better performance"
ImpSpace     == "Consider using generators or iterators to reduce memory usage"
ImpComments  == "Add comments to explain complex logic"
ImpLogging   == "Consider using proper logging instead of print statements"
ImpExcept    == "Add proper exception handling"
ImpInput     == "Add input validation to prevent unexpected errors"

generate_improvements(code) ==
    LET lines == Split(code, "\n")
        commented == \E i \in 1..Len(lines) : StartsWith(Strip(lines[i]), kwHash)
        bp1 == AppendIf(<<>>, ~commented, ImpComments)
        bp2 == AppendIf(bp1, Contains(code, kwPrint), ImpLogging)
        ef1 == AppendIf(<<>>, Contains(code, kwTry) /\ ~Contains(code, kwExcept), ImpExcept)
        ef2 == AppendIf(ef1, Contains(code, kwInputPP), ImpInput)
    IN  [time_complexity |->
             IF Contains(code, kwFor) /\ Contains(code, kwRange)
             THEN Some(ImpTime) ELSE None,
         space_complexity |->
             IF Contains(code, kwBrackets) \/ Contains(code, kwBraces)
             THEN Some(ImpSpace) ELSE None,
         best_practices |-> bp2,
         error_fixes |-> ef2]

(***************************************************************************)
(* The lazily loaded handle.  tokenizer is "None" or "loaded"; model is    *)
(* "None", "cpu" or "cuda".  What a load does is the environment's choice: *)
(* either from_pretrained call or model.cuda() may raise, and CUDA may or  *)
(* may not be available.                                                   *)
(***************************************************************************)
LoadOutcomes == {"tokenizer_fails", "model_fails", "cuda_fails", "ok_cpu", "ok_cuda"}
LoadFailures == {"tokenizer_fails", "model_fails", "cuda_fails"}

MsgTokenizer == "tokenizer: from_pretrained failed"
MsgModel     == "model: from_pretrained failed"
MsgCuda      == "model.cuda() failed"

\* The guard left out: every call loads.
NeedsLoadAlways(tok, mod) == TRUE

\* The guard of lines 28 and 84.
NeedsLoad(tok, mod) == tok = "None" \/ mod = "None"

\* load_model(): the handle it leaves, the calls it made, whether it raised.
load_model(tok, mod, outcome) ==
    IF ~NeedsLoad(tok, mod)
        THEN [tokenizer |-> tok, model |-> mod, steps |-> <<>>,
              raised |-> FALSE, msg |-> ""]
    ELSE IF outcome = "tokenizer_fails"
        THEN [tokenizer |-> tok, model |-> mod, steps |-> <<"tokenizer">>,
              raised |-> TRUE, msg |-> MsgTokenizer]
    ELSE IF outcome = "model_fails"
        THEN [tokenizer |-> "loaded", model |-> mod, steps |-> <<"tokenizer", "model">>,
              raised |-> TRUE, msg |-> MsgModel]
    ELSE IF outcome = "cuda_fails"
        THEN [tokenizer |-> "loaded", model |-> "cpu",
              steps |-> <<"tokenizer", "model", "cuda">>,
              raised |-> TRUE, msg |-> MsgCuda]
    ELSE IF outcome = "ok_cuda"
        THEN [tokenizer |-> "loaded", model |-> "cuda",
              steps |-> <<"tokenizer", "model", "cuda">>,
              raised |-> FALSE, msg |-> ""]
    ELSE [tokenizer |-> "loaded", model |-> "cpu", steps |-> <<"tokenizer", "model">>,
          raised |-> FALSE, msg |-> ""]

(***************************************************************************)
(* generate_explanation                                                    *)
(***************************************************************************)
\* suggestions if suggestions else None
SuggestionsField(suggestions) == IF suggestions = <<>> THEN None ELSE Some(suggestions)

CodeExplanation(i, line, explanation, suggestions) ==
    [line_number |-> i, code |-> line, explanation |-> explanation,
     suggestions |-> SuggestionsField(suggestions)]

\* enumerate(lines): numbering from Python's default start.
FirstLineNumberDefault == 1 - 1

\* enumerate(lines, 1)
FirstLineNumber == 1

\* The classifier's exception swallowed: the explanations so far are returned.
RECURSIVE ExplainLinesPartial(_, _, _)
ExplainLinesPartial(lines, k, acc) ==
    IF k > Len(lines) THEN Returned(acc)
    ELSE IF Strip(lines[k]) = <<>> THEN ExplainLinesPartial(lines, k + 1, acc)
    ELSE LET e == generate_simple_explanation(lines[k])
         IN  IF e.raised THEN Returned(acc)
             ELSE ExplainLinesPartial(lines, k + 1,
                      Append(acc, [line_number |-> k, code |-> lines[k],
                                   explanation |-> e.value[1],
                                   suggestions |-> IF generate_suggestions(lines[k]) = <<>>
                                                   THEN None
                                                   ELSE Some(generate_suggestions(lines[k]))]))

\* The loop of lines 87-102 from position k of lines, explanations so far in
\* acc: a raise in the classifier abandons the list.
RECURSIVE ExplainLines(_, _, _)
ExplainLines(lines, k, acc) ==
    IF k > Len(lines) THEN Returned(acc)
    ELSE IF Strip(lines[k]) = <<>> THEN ExplainLines(lines, k + 1, acc)
    ELSE LET e == generate_simple_explanation(lines[k])
         IN  IF e.raised THEN Raised(e.msg)
             ELSE ExplainLines(lines, k + 1,
                      Append(acc, CodeExplanation(k - 1 + FirstLineNumber, lines[k],
                                      e.value[1], generate_suggestions(lines[k]))))

\* An early return after the load: the call that loads the handle explains
\* nothing.
generate_explanation_early_return(code, tok, mod, outcome) ==
    IF Strip(code) = <<>>
        THEN [result |-> Returned(<<>>), tokenizer |-> tok, model |-> mod,
              loadCalls |-> 0, steps |-> <<>>, loadRaised |-> FALSE]
    ELSE IF NeedsLoad(tok, mod)
        THEN LET l == load_model(tok, mod, outcome)
             IN  [result |-> IF l.raised THEN Raised(l.msg) ELSE Returned(<<>>),
                  tokenizer |-> l.tokenizer, model |-> l.model,
                  loadCalls |-> 1, steps |-> l.steps, loadRaised |-> l.raised]
    ELSE [result |-> ExplainLines(Split(code, "\n"), 1, <<>>),
          tokenizer |-> tok, model |-> mod,
          loadCalls |-> 0, steps |-> <<>>, loadRaised |-> FALSE]

\* The result (or exception), the handle afterwards and the load calls made.
generate_explanation(code, tok, mod, outcome) ==
    IF Strip(code) = <<>>
        THEN [result |-> Returned(<<>>), tokenizer |-> tok, model |-> mod,
              loadCalls |-> 0, steps |-> <<>>, loadRaised |-> FALSE]
    ELSE LET l == IF NeedsLoad(tok, mod) THEN load_model(tok, mod, outcome)
                  ELSE [tokenizer |-> tok, model |-> mod, steps |-> <<>>,
                        raised |-> FALSE, msg |-> ""]
             calls == IF NeedsLoad(tok, mod) THEN 1 ELSE 0
         IN  [result |-> IF l.raised THEN Raised(l.msg)
                         ELSE ExplainLines(Split(code, "\n"), 1, <<>>),
              tokenizer |-> l.tokenizer, model |-> l.model,
              loadCalls |-> calls, steps |-> l.steps, loadRaised |-> l.raised]

(***************************************************************************)
(* explain_code, the handler of POST /api/explain.                         *)
(***************************************************************************)
\* Truthiness of request.include_improvements, an Optional[bool].
Truthy(flag) == flag = "true"

\* The condition as "is not False": an explicit null counts as the default.
WantsImprovementsUnlessFalse(req) == req.include_improvements # "false"

\* request.include_improvements as the condition of line 189.
WantsImprovements(req) == Truthy(req.include_improvements)

CodeAnalysis(cx, explanations, improvements) ==
    [complexity |-> cx.complexity, time_complexity |-> cx.time_complexity,
     space_complexity |-> cx.space_complexity, explanations |-> explanations,
     improvements |-> improvements]

Ok200(body)    == [status |-> 200, detail |-> "", body |-> Some(body)]
Error500(msg)  == [status |-> 500, detail |-> msg, body |-> None]

explain_code(req, tok, mod, outcome) ==
    LET g == generate_explanation(req.code, tok, mod, outcome)
        wants == ~g.result.raised /\ WantsImprovements(req)
    IN  [response |->
             IF g.result.raised THEN Error500(g.result.msg)
             ELSE Ok200(CodeAnalysis(analyze_complexity(req.code), g.result.value[1],
                      IF wants THEN Some(generate_improvements(req.code)) ELSE None)),
         tokenizer |-> g.tokenizer, model |-> g.model,
         log |-> [sawLoaded |-> ~NeedsLoad(tok, mod),
                  loadCalls |-> g.loadCalls, steps |-> g.steps,
                  loadRaised |-> g.loadRaised,
                  improvementCalls |-> IF wants THEN 1 ELSE 0]]

(***************************************************************************)
(* Inputs.                                                                 *)
(***************************************************************************)
MaxLines    == 3
MaxPending  == 2
MaxFailures == 1
MaxFrags    == 3

Flags == {"true", "false", "null"}

Long81 == [i \in 1..(LongLine + 1) |-> "x"]

lnEmpty   == <<>>
lnBlank   == <<" ", "\t">>
lnAssign  == <<"x", " ", "=", " ", "1">>
lnIf      == <<"\t", "i", "f", " ", "x", ":">>
lnClass   == <<"(", "c", "l", "a", "s", "s", " ", "x">>

ReqLines == {lnEmpty, lnBlank, lnAssign, lnIf, lnClass}

\* One line for every subset of the texts the suggestion rules look for.
SuggestParts == <<kwTry, kwExcept, kwForSp, kwRangeP, kwPrintP, kwIfSp, kwElse, Long81>>
SuggestLines ==
    {Concat([i \in 1..Len(SuggestParts) |-> IF i \in S THEN SuggestParts[i] ELSE <<>>]) :
        S \in SUBSET (1..Len(SuggestParts))}

\* All sequences of 1..n elements of S.
RECURSIVE SeqsUpTo(_, _)
SeqsUpTo(S, n) ==
    IF n = 0 THEN {}
    ELSE LET shorter == SeqsUpTo(S, n - 1)
         IN  {<<x>> : x \in S} \cup shorter \cup {Append(q, x) : q \in shorter, x \in S}

\* Texts of up to MaxLines lines, and the one-line texts of SuggestLines.
Codes == {Join(ls, <<"\n">>) : ls \in SeqsUpTo(ReqLines, MaxLines)} \cup SuggestLines

\* CodeRequest without its language field, which no code reads.
Requests == [code : Codes, include_improvements : Flags]

ProbeRequests ==
    {[code |-> lnEmpty, include_improvements |-> "true"],
     [code |-> lnAssign, include_improvements |-> "true"],
     [code |-> lnClass, include_improvements |-> "false"]}

(***************************************************************************)
(* The server.  The handler is a coroutine without an await, so the event  *)
(* loop runs each request's handler to completion before the next: requests*)
(* in flight wait in pending, and Serve is one whole handler run.          *)
(***************************************************************************)
\* A call of one heuristic: its argument, and its result once it has run.
PendingCall(fn, arg) == [fn |-> fn, arg |-> arg, result |-> None]

ZeroStats == [tokenizerLoads |-> 0, modelLoads |-> 0, loadReturns |-> 0, failures |-> 0]

Init ==
    /\ tokenizer = "None"
    /\ model = "None"
    /\ pending = <<>>
    /\ request = None
    /\ response = None
    /\ log = None
    /\ stats = ZeroStats
    /\ first = None
    /\ call = PendingCall("none", <<>>)

\* A load step succeeded if the load went past it.
StatsAfter(st, lg, outcome) ==
    IF lg.steps = <<>> THEN st
    ELSE [tokenizerLoads |-> st.tokenizerLoads
                             + (IF outcome = "tokenizer_fails" THEN 0 ELSE 1),
          modelLoads |-> st.modelLoads
                         + (IF outcome \in {"tokenizer_fails", "model_fails"} THEN 0 ELSE 1),
          loadReturns |-> st.loadReturns + (IF outcome \in LoadFailures THEN 0 ELSE 1),
          failures |-> st.failures + (IF outcome \in LoadFailures THEN 1 ELSE 0)]

RemoveAt(q, i) == SubSeq(q, 1, i - 1) \o SubSeq(q, i + 1, Len(q))

Arrive(req) ==
    /\ Len(pending) < MaxPending
    /\ pending' = Append(pending, req)
    /\ UNCHANGED <<tokenizer, model, request, response, log, stats, first, call>>

\* Whether serving code with the handle (tok, mod) reaches load_model.
Loads(code, tok, mod) == Strip(code) # <<>> /\ NeedsLoad(tok, mod)

\* outcome is the environment's answer to the load, "none" when none is made.
Serve(i, outcome) ==
    /\ i \in 1..Len(pending)
    /\ (outcome = "none") <=> ~Loads(pending[i].code, tokenizer, model)
    /\ outcome \in LoadFailures => stats.failures < MaxFailures
    /\ LET r == explain_code(pending[i], tokenizer, model, outcome)
       IN  /\ tokenizer' = r.tokenizer
           /\ model' = r.model
           /\ request' = Some(pending[i])
           /\ response' = Some(r.response)
           /\ log' = Some(r.log)
           /\ stats' = StatsAfter(stats, r.log, outcome)
    /\ pending' = RemoveAt(pending, i)
    /\ UNCHANGED <<first, call>>

\* An observer keeps one served request and its response to compare later ones with.
Record ==
    /\ first = None
    /\ request # None
    /\ first' = Some([request |-> request[1], response |-> response[1], log |-> log[1]])
    /\ UNCHANGED <<tokenizer, model, pending, request, response, log, stats, call>>

Next ==
    \/ \E req \in ProbeRequests : Arrive(req)
    \/ \E i \in 1..MaxPending, outcome \in LoadOutcomes \cup {"none"} : Serve(i, outcome)
    \/ Record

Spec == Init /\ [][Next]_vars

(***************************************************************************)
(* One request, any code: the handler on every input of Requests.          *)
(***************************************************************************)
InitRequest ==
    /\ tokenizer = "None"
    /\ model = "None"
    /\ pending \in {<<req>> : req \in Requests}
    /\ request = None
    /\ response = None
    /\ log = None
    /\ stats = ZeroStats
    /\ first = None
    /\ call = PendingCall("none", <<>>)

NextRequest == \E outcome \in LoadOutcomes \cup {"none"} : Serve(1, outcome)

SpecRequest == InitRequest /\ [][NextRequest]_vars

(***************************************************************************)
(* The heuristics called directly, on lines and texts built from up to     *)
(* MaxFrags fragments.                                                     *)
(***************************************************************************)
ClassifierFrags ==
    {kwDef, kwFunction, kwIfSp, kwForSp, kwWhileSp, kwReturnSp, kwPrintP, kwEq,
     kwImportSp, kwClassSp, <<"(">>, <<"x">>, <<" ">>}

kwElseIfSp == <<"e", "l", "s", "e", " ", "i", "f", " ">>

ComplexityFrags ==
    {kwFor, kwWhile, kwIf, kwElse, kwElif, kwSwitch, kwCase, kwElseIfSp,
     kwBrackets, <<"x">>}

ClassifierLines == {<<>>} \cup {Concat(fs) : fs \in SeqsUpTo(ClassifierFrags, MaxFrags)}
ComplexityCodes == {<<>>} \cup {Concat(fs) : fs \in SeqsUpTo(ComplexityFrags, MaxFrags)}

InitFn ==
    /\ tokenizer = "None"
    /\ model = "None"
    /\ pending = <<>>
    /\ request = None
    /\ response = None
    /\ log = None
    /\ stats = ZeroStats
    /\ first = None
    /\ call \in {PendingCall("generate_simple_explanation", line) : line \in ClassifierLines}
                \cup {PendingCall("analyze_complexity", code) : code \in ComplexityCodes}

CallClassifier ==
    /\ call.fn = "generate_simple_explanation"
    /\ call.result = None
    /\ call' = [call EXCEPT !.result = Some(generate_simple_explanation(call.arg))]
    /\ UNCHANGED <<tokenizer, model, pending, request, response, log, stats, first>>

CallComplexity ==
    /\ call.fn = "analyze_complexity"
    /\ call.result = None
    /\ call' = [call EXCEPT !.result = Some(analyze_complexity(call.arg))]
    /\ UNCHANGED <<tokenizer, model, pending, request, response, log, stats, first>>

NextFn == CallClassifier \/ CallComplexity

SpecFn == InitFn /\ [][NextFn]_vars

(***************************************************************************)
(* Properties.                                                             *)
(***************************************************************************)
Served == response # None

\* Positions (from 1) of the lines of code that are not blank.
NonBlankLines(code) ==
    LET lines == Split(code, "\n")
    IN  {i \in 1..Len(lines) : ~IsBlank(lines[i])}

\* C1: for every code string whose handling is not cut short by a failed model
\* load, the response carries an explanations sequence with as many entries as
\* the code has non-blank lines.
C1_OneExplanationPerNonBlankLine ==
    (Served /\ ~log[1].loadRaised) =>
        /\ response[1].body # None
        /\ Len(response[1].body[1].explanations)
               = Cardinality(NonBlankLines(request[1].code))

\* C2: in a successful response every entry's line_number is the position of
\* its line among all lines of the input, the entry carries that line's text,
\* blank lines are never emitted, and the numbers are strictly increasing.
C2_LineNumbersCountAllLines ==
    (Served /\ response[1].status = 200) =>
        LET es == response[1].body[1].explanations
            lines == Split(request[1].code, "\n")
        IN  /\ \A k \in 1..Len(es) :
                   /\ es[k].line_number \in 1..Len(lines)
                   /\ ~IsBlank(lines[es[k].line_number])
                   /\ es[k].code = lines[es[k].line_number]
            /\ \A k \in 1..(Len(es) - 1) : es[k].line_number < es[k + 1].line_number
            /\ {es[k].line_number : k \in 1..Len(es)} = NonBlankLines(request[1].code)

\* A successful response whose line numbers are 1 and 3: line 2 was blank.
C2_Witness ==
    /\ Served
    /\ response[1].status = 200
    /\ Len(response[1].body[1].explanations) = 2
    /\ response[1].body[1].explanations[1].line_number = 1
    /\ response[1].body[1].explanations[2].line_number = 3

\* The classifier's rules in their order, on a stripped line.
RuleHolds(k, line) ==
    CASE k = 1 -> StartsWith(line, kwDef) \/ StartsWith(line, kwFunction)
      [] k = 2 -> Contains(line, kwIfSp)
      [] k = 3 -> Contains(line, kwForSp) \/ Contains(line, kwWhileSp)
      [] k = 4 -> Contains(line, kwReturnSp)
      [] k = 5 -> Contains(line, kwPrintP)
      [] k = 6 -> Contains(line, kwEq)
      [] k = 7 -> Contains(line, kwImportSp)
      [] k = 8 -> Contains(line, kwClassSp)

RuleSentence ==
    <<SentFunction, SentIf, SentLoop, SentReturn, SentPrint, SentAssign, SentImport,
      SentClass>>

ClassifierCalled == call.fn = "generate_simple_explanation" /\ call.result # None

\* C3: the classifier returns one sentence for every line, that of the first
\* rule whose condition holds, and the default sentence exactly when none holds.
C3_FirstRuleWins ==
    ClassifierCalled =>
        LET line == Strip(call.arg)
            holding == {k \in 1..Len(RuleSentence) : RuleHolds(k, line)}
            r == call.result[1]
        IN  /\ ~r.raised
            /\ r.value[1].text = IF holding = {} THEN SentDefault
                                 ELSE RuleSentence[SetMin(holding)]

\* C4: the classifier, name extraction included, raises on no line.
C4_ClassifierNeverRaises == ClassifierCalled => ~call.result[1].raised

ComplexityCalled == call.fn = "analyze_complexity" /\ call.result # None

\* C5: the label is "High" if loops > 2 or conditionals > 3, else "Medium" if
\* loops > 0 or conditionals > 1, else "Low"; time_complexity is "O(n)" exactly
\* when loops > 0, else "O(1)"; the counts are the non-overlapping matches of
\* for|while and of if|else|elif|switch|case.
C5_ComplexityThresholds ==
    ComplexityCalled =>
        LET loops == FindAllCount(call.arg, LoopWords)
            conds == FindAllCount(call.arg, ConditionalWords)
            r == call.result[1]
            high == loops > 2 \/ conds > 3
            medium == ~high /\ (loops > 0 \/ conds > 1)
        IN  /\ r.complexity \in {"High", "Medium", "Low"}
            /\ (r.complexity = "High") <=> high
            /\ (r.complexity = "Medium") <=> medium
            /\ (r.complexity = "Low") <=> (~high /\ ~medium)
            /\ r.time_complexity \in {"O(n)", "O(1)"}
            /\ (r.time_complexity = "O(n)") <=> (loops > 0)
            /\ (loops = 3 /\ conds = 0) => r.complexity = "High"
            /\ (loops = 1 /\ conds = 0) => r.complexity = "Medium"
            /\ (loops = 0 /\ conds = 0) =>
                   (r.complexity = "Low" /\ r.time_complexity = "O(1)")

\* Three loop matches and no conditional give "High".
C5_Witness ==
    /\ ComplexityCalled
    /\ FindAllCount(call.arg, LoopWords) = 3
    /\ FindAllCount(call.arg, ConditionalWords) = 0
    /\ call.result[1].complexity = "High"

\* The suggestion rules, in their order of emission.
SuggestionOrder == <<SugLong, SugElse, SugCompr, SugLog, SugExcept>>

SuggestionFires(k, line) ==
    CASE k = 1 -> Len(line) > LongLine
      [] k = 2 -> Contains(line, kwIfSp) /\ ~Contains(line, kwElse)
      [] k = 3 -> Contains(line, kwForSp) /\ Contains(line, kwRangeP)
      [] k = 4 -> Contains(line, kwPrintP)
      [] k = 5 -> Contains(line, kwTry) /\ ~Contains(line, kwExcept)

\* The suggestions of the rules that fire on line, in the fixed order.
FiredInOrder(line) ==
    LET fired == {k \in 1..Len(SuggestionOrder) : SuggestionFires(k, line)}
        nth(j) == CHOOSE k \in fired : Cardinality({h \in fired : h <= k}) = j
    IN  [j \in 1..Cardinality(fired) |-> SuggestionOrder[nth(j)]]

\* C6: each entry's suggestions are those of exactly the rules that fire on its
\* line, whatever the combination, in the fixed order; when none fires the
\* field is null, and it is never an empty list.
C6_SuggestionsIndependentOrdered ==
    (Served /\ response[1].status = 200) =>
        \A k \in 1..Len(response[1].body[1].explanations) :
            LET e == response[1].body[1].explanations[k]
            IN  /\ e.suggestions # Some(<<>>)
                /\ e.suggestions = IF FiredInOrder(e.code) = <<>> THEN None
                                   ELSE Some(FiredInOrder(e.code))

\* An entry on which all five rules fired.
C6_Witness ==
    /\ Served
    /\ response[1].status = 200
    /\ \E k \in 1..Len(response[1].body[1].explanations) :
           response[1].body[1].explanations[k].suggestions = Some(SuggestionOrder)

ImprovementFields == {"time_complexity", "space_complexity", "best_practices", "error_fixes"}

\* C7: a successful response carries the improvements report if and only if
\* include_improvements is true; otherwise the field is null and
\* generate_improvements was not called for the request.
C7_ImprovementsIffRequested ==
    Served =>
        LET flag == request[1].include_improvements
        IN  /\ response[1].status = 200 =>
                   ((response[1].body[1].improvements # None) <=> (flag = "true"))
            /\ (response[1].status = 200 /\ flag = "true") =>
                   DOMAIN response[1].body[1].improvements[1] = ImprovementFields
            /\ flag # "true" => log[1].improvementCalls = 0

\* A successful response to a request with include_improvements false.
C7_Witness ==
    /\ Served
    /\ response[1].status = 200
    /\ request[1].include_improvements = "false"
    /\ response[1].body[1].improvements = None
    /\ response[1].body[1].explanations # <<>>

\* The request just served repeats the one the observer kept.
Repeated == first # None /\ request # None /\ request[1] = first[1].request

AnalysisFields ==
    {"complexity", "time_complexity", "space_complexity", "explanations", "improvements"}

\* C10: an exception in the load or in the classifier gives a 500 whose detail
\* is its message and no body; otherwise the response is a 200 with the whole
\* analysis; no handler calls load_model twice or repeats a step of it.
C10_AllOrNothing ==
    Served =>
        LET lines == Split(request[1].code, "\n")
            raising == {i \in NonBlankLines(request[1].code) :
                            generate_simple_explanation(lines[i]).raised}
            steps == log[1].steps
            loadMsg == IF steps = <<"tokenizer">> THEN MsgTokenizer
                       ELSE IF steps = <<"tokenizer", "model">> THEN MsgModel
                       ELSE MsgCuda
        IN  /\ log[1].loadCalls <= 1
            /\ \A i, j \in 1..Len(steps) : steps[i] = steps[j] => i = j
            /\ response[1].status \in {200, 500}
            /\ response[1].status = 500 => response[1].body = None
            /\ log[1].loadRaised =>
                   response[1] = [status |-> 500, detail |-> loadMsg, body |-> None]
            /\ (~log[1].loadRaised /\ raising # {}) =>
                   response[1] = [status |-> 500, detail |-> "list index out of range",
                                  body |-> None]
            /\ (~log[1].loadRaised /\ raising = {}) =>
                   /\ response[1].status = 200
                   /\ response[1].detail = ""
                   /\ response[1].body # None
                   /\ DOMAIN response[1].body[1] = AnalysisFields
                   /\ Len(response[1].body[1].explanations)
                          = Cardinality(NonBlankLines(request[1].code))

\* A model load that failed after the tokenizer loaded, answered with a 500.
C10_Witness ==
    /\ Served
    /\ log[1].loadRaised
    /\ log[1].steps = <<"tokenizer", "model">>
    /\ response[1] = [status |-> 500, detail |-> MsgModel, body |-> None]
    /\ tokenizer = "loaded"
    /\ model = "None"

====
